---- MODULE Spec2Model ----
(***************************************************************************)
(* django-changerequest: the change-tracking core of changerequest/models.py *)
(* (ChangeRequest, HistoryModel), changerequest/utils.py, the views'        *)
(* form_valid of changerequest/views.py and ChangeRequestMiddleware.        *)
(*                                                                         *)
(* The database is the tracked entity table (rows), a dependent child      *)
(* table (related) and the ChangeRequest table (history).  Every worker    *)
(* thread has the thread-local request binding, its position in the        *)
(* middleware and the tracked-entity operation it is executing, one        *)
(* statement group of the source per step.                                 *)
(***************************************************************************)
EXTENDS Integers, Sequences, FiniteSets, TLC

VARIABLES rows, nextPk, related, nextRel, history, request, mw, op

dbvars == <<rows, nextPk, related, nextRel, history>>
vars == <<rows, nextPk, related, nextRel, history, request, mw, op>>

(***************************************************************************)
(* Bounds of the model.                                                    *)
(***************************************************************************)
MaxPk == 1
MaxRel == 1
MaxHistory == 2
MaxDiffId == 3
MaxDiffLen == 3
MaxHeaderLen == 6

Threads == {"w1", "w2"}
Worker == "w1"

(* Python's None for a nullable value, and a present value. *)
None == <<>>
Some(x) == <<x>>
Val(o) == o[1]

(* Field values.  A datetime is a count of microseconds. *)
Names == {"john", "jane"}
Dates == {1000, 1001}
Texts == {"x", "y"}
Comments == {"", "src"}
Fields == {"name", "pub_date"}

(* The request a worker thread is handling: its user and its META, with    *)
(* the X-Forwarded-For header (None: absent; a string is a sequence of     *)
(* characters) and the connection's address.                               *)
RequestOf == [t \in Threads |->
    IF t = "w1"
    THEN [user |-> "alice",
          META |-> [HTTP_X_FORWARDED_FOR |-> None, REMOTE_ADDR |-> "10.0.0.1"]]
    ELSE [user |-> "bob",
          META |-> [HTTP_X_FORWARDED_FOR |-> Some(<<"2">>), REMOTE_ADDR |-> "10.0.0.9"]]]

(***************************************************************************)
(* ChangeRequest.Type and ChangeRequest.Status.                            *)
(***************************************************************************)
ADD == 1
MODIFY == 2
DELETE == 3
RELATED == 4

PENDING == 1
APPROVED == 2
DENIED == 3
WITHDRAWN == 4
REVERTED == 5

Statuses == {PENDING, APPROVED, DENIED, WITHDRAWN, REVERTED}

(***************************************************************************)
(* utils.py                                                                *)
(***************************************************************************)
(* model_to_dict(instance): every editable field but the primary key. *)
model_to_dict(obj) == [f \in Fields |-> obj[f]]

(* model_to_dict(child, exclude_pk=False) of a row of the child table. *)
related_to_dict(id, r) == [id |-> id, parent |-> r.parent, text |-> r.text]

(* changed_keys that also reports the keys a has and b has not. *)
changed_keys_left(a, b) ==
    {k \in DOMAIN a : k \notin DOMAIN b \/ a[k] # b[k]}

(* changed_keys that reports the keys of either dictionary that the other  *)
(* has not or has with another value.                                      *)
changed_keys_either(a, b) ==
    {k \in (DOMAIN a) \cup (DOMAIN b) :
        k \notin DOMAIN a \/ k \notin DOMAIN b \/ a[k] # b[k]}

(* changed_keys that reports every shared key. *)
changed_keys_shared(a, b) == (DOMAIN a) \cap (DOMAIN b)

(* filter_data that keeps every key. *)
filter_data_all(data, keys) == data

changed_keys(a, b) == {k \in (DOMAIN a) \cap (DOMAIN b) : a[k] # b[k]}

filter_data(data, keys) == [k \in keys \cap (DOMAIN data) |-> data[k]]

(* str.strip(chars): the characters of chars removed from both ends. *)
RECURSIVE lstrip(_, _)
lstrip(sq, chars) ==
    IF sq # <<>> /\ Head(sq) \in chars THEN lstrip(Tail(sq), chars) ELSE sq

RECURSIVE rstrip(_, _)
rstrip(sq, chars) ==
    IF sq # <<>> /\ sq[Len(sq)] \in chars
    THEN rstrip(SubSeq(sq, 1, Len(sq) - 1), chars) ELSE sq

strip(sq, chars) == rstrip(lstrip(sq, chars), chars)

(* The python string of a sequence of characters. *)
RECURSIVE Join(_)
Join(sq) == IF sq = <<>> THEN "" ELSE Head(sq) \o Join(Tail(sq))

(* urllib.request.parse_http_list: the loop over the characters of s from  *)
(* position i, with its variables res, part, escape and quote; then the    *)
(* last part appended if not empty, and every part stripped of whitespace. *)
RECURSIVE parse_http_loop(_, _, _, _, _, _)
parse_http_loop(s, i, res, part, escape, quote) ==
    IF i > Len(s) THEN (IF part # <<>> THEN Append(res, part) ELSE res)
    ELSE LET cur == s[i]
         IN  IF escape
             THEN parse_http_loop(s, i + 1, res, Append(part, cur), FALSE, quote)
             ELSE IF quote
             THEN IF cur = "\\"
                  THEN parse_http_loop(s, i + 1, res, part, TRUE, quote)
                  ELSE parse_http_loop(s, i + 1, res, Append(part, cur), FALSE,
                                       cur # "\"")
             ELSE IF cur = ","
             THEN parse_http_loop(s, i + 1, Append(res, part), <<>>, FALSE, FALSE)
             ELSE parse_http_loop(s, i + 1, res, Append(part, cur), FALSE,
                                  cur = "\"")

parse_http_list(s) ==
    LET res == parse_http_loop(s, 1, <<>>, <<>>, FALSE, FALSE)
    IN  [i \in 1..Len(res) |-> strip(res[i], {" "})]

(* get_ip_from_request that does not strip the quotes. *)
get_ip_unstripped(req) ==
    IF req.META.HTTP_X_FORWARDED_FOR # None
         /\ Len(parse_http_list(Val(req.META.HTTP_X_FORWARDED_FOR))) > 0
    THEN Join(parse_http_list(Val(req.META.HTTP_X_FORWARDED_FOR))[1])
    ELSE req.META.REMOTE_ADDR

get_ip_from_request(req) ==
    IF req.META.HTTP_X_FORWARDED_FOR # None
         /\ Len(parse_http_list(Val(req.META.HTTP_X_FORWARDED_FOR))) > 0
    THEN Join(strip(parse_http_list(Val(req.META.HTTP_X_FORWARDED_FOR))[1], {"\""}))
    ELSE req.META.REMOTE_ADDR

(***************************************************************************)
(* ChangeRequest (models.py)                                               *)
(***************************************************************************)
(* str(obj): the entity's label.  No tracked model of the repository      *)
(* defines __str__, so it is django's Model.__str__,                       *)
(* '%s object (%s)' % (class name, pk).                                    *)
Str(obj) ==
    "Question object (" \o (IF obj.pk = 0 THEN "None" ELSE ToString(obj.pk)) \o ")"

(* cls(): a fresh in-memory ChangeRequest; pk 0, object_id 0 stand for None. *)
NewChangeRequest ==
    [pk |-> 0, object_id |-> 0, object_str |-> "", related_type |-> "",
     request_type |-> 0, status |-> PENDING, data_revert |-> None,
     data_changed |-> None, comment |-> "", user |-> "", user_ip |-> "",
     mod |-> "", mod_ip |-> ""]

(* set_object that refreshes the label and not the identity. *)
set_object_label_only(cr, obj) == [cr EXCEPT !.object_str = Str(obj)]

set_object(cr, obj) ==
    IF obj.pk # 0
    THEN [cr EXCEPT !.object_id = obj.pk, !.object_str = Str(obj)]
    ELSE [cr EXCEPT !.object_id = 0, !.object_str = Str(obj)]

(* set_request_type that looks at the explicit value only. *)
set_request_type_explicit_only(cr, rt) ==
    [cr EXCEPT !.request_type = IF rt # 0 THEN rt ELSE ADD]

set_request_type(cr, rt) ==
    [cr EXCEPT !.request_type =
        IF rt # 0 THEN rt
        ELSE IF cr.related_type # "" THEN RELATED
        ELSE IF cr.object_id # 0 THEN MODIFY
        ELSE ADD]

set_user(cr, req) ==
    [cr EXCEPT !.user = req.user, !.user_ip = get_ip_from_request(req)]

set_mod(cr, req) ==
    [cr EXCEPT !.mod = req.user, !.mod_ip = get_ip_from_request(req)]

(* data_revert reading the instance instead of the stored row. *)
data_revert_from_instance(obj, rws) ==
    IF obj.pk # 0 THEN Some(model_to_dict(obj)) ELSE None

(* HistoryModel.data_revert: the persisted values, None without an identity. *)
data_revert(obj, rws) ==
    IF obj.pk # 0 THEN Some(model_to_dict(Val(rws[obj.pk]))) ELSE None

(* get_request with a default instead of the AttributeError. *)
get_request_or_anonymous(binding) ==
    IF binding = None
    THEN Some([user |-> "anonymous",
               META |-> [HTTP_X_FORWARDED_FOR |-> None, REMOTE_ADDR |-> "0.0.0.0"]])
    ELSE binding

(* ChangeRequest.get_request: cls.thread.request, the request bound to the *)
(* thread; None stands for the AttributeError of an unbound thread.        *)
get_request(binding) == binding

(* objects.get(pk=self.pk) raises DoesNotExist. *)
DataRevertRaises(obj, rws) == obj.pk # 0 /\ rws[obj.pk] = None

(* ChangeRequest.create raises: DoesNotExist from data_revert, changed_keys  *)
(* on None, or no request bound to the thread (get_request).               *)
CreateRaises(obj, rt, binding, rws) ==
    LET c == set_request_type(set_object(NewChangeRequest, obj), rt)
    IN  \/ /\ c.request_type # RELATED
           /\ \/ DataRevertRaises(obj, rws)
              \/ c.request_type = MODIFY /\ obj.pk = 0
        \/ get_request(binding) = None

(* create without line 87, the status left as the caller will set it. *)
create_approved(obj, rt, req, rws) ==
    set_user([set_request_type(set_object(NewChangeRequest, obj), rt)
                 EXCEPT !.status = APPROVED], req)

create(obj, rt, req, rws) ==
    LET c1 == set_request_type(set_object(NewChangeRequest, obj), rt)
        c2 == [c1 EXCEPT !.status = PENDING]
        dr == data_revert(obj, rws)
        dc == Some(model_to_dict(obj))
        fields == changed_keys(Val(dr), Val(dc))
        c3 == IF c2.request_type = RELATED THEN c2
              ELSE IF c2.request_type = MODIFY
                   THEN IF fields # {}
                        THEN [c2 EXCEPT !.data_revert = Some(filter_data(Val(dr), fields)),
                                        !.data_changed = Some(filter_data(Val(dc), fields))]
                        ELSE [c2 EXCEPT !.data_revert = dr, !.data_changed = dc]
                   ELSE IF c2.request_type = DELETE
                        THEN [c2 EXCEPT !.data_revert = dr, !.data_changed = None]
                        ELSE [c2 EXCEPT !.data_revert = dr, !.data_changed = dc]
    IN  set_user(c3, req)

(* DjangoJSONEncoder, the encoder of the data_revert and data_changed      *)
(* columns: a datetime is written as an ISO string cut to milliseconds.    *)
JsonEncode(k, v) == IF k = "pub_date" THEN v - (v % 1000) ELSE v

EncodeData(rt, data) ==
    IF data = None \/ rt = RELATED THEN data
    ELSE Some([k \in DOMAIN Val(data) |-> JsonEncode(k, Val(data)[k])])

(* The row of the ChangeRequest table an in-memory record is written as. *)
Stored(cr) ==
    [object_id |-> cr.object_id, object_str |-> cr.object_str,
     related_type |-> cr.related_type, request_type |-> cr.request_type,
     status |-> cr.status,
     data_revert |-> EncodeData(cr.request_type, cr.data_revert),
     data_changed |-> EncodeData(cr.request_type, cr.data_changed),
     comment |-> cr.comment, user |-> cr.user, user_ip |-> cr.user_ip,
     mod |-> cr.mod, mod_ip |-> cr.mod_ip]

(* ChangeRequest.save: the condition under which the record is written. *)
ShouldPersist(cr) ==
    \/ cr.request_type \notin {MODIFY, RELATED}
    \/ cr.data_revert # cr.data_changed

(* ChangeRequest.save that inserts a row whether or not the record has a pk. *)
SavedHistoryAlwaysInsert(cr, h) ==
    IF ~ShouldPersist(cr) THEN h ELSE Append(h, Stored(cr))

(* ChangeRequest.save: the table after it, and the record (its pk set by an insert). *)
SavedHistory(cr, h) ==
    IF ~ShouldPersist(cr) THEN h
    ELSE IF cr.pk = 0 THEN Append(h, Stored(cr))
    ELSE [h EXCEPT ![cr.pk] = Stored(cr)]

SavedRecord(cr, h) ==
    IF ShouldPersist(cr) /\ cr.pk = 0 THEN [cr EXCEPT !.pk = Len(h) + 1] ELSE cr


(***************************************************************************)
(* The formset of save_related: one form per child row of the parent (its  *)
(* submitted text, whether it is marked for deletion) and the extra forms  *)
(* with entered data.                                                      *)
(***************************************************************************)
RECURSIVE SortedSeq(_)
SortedSeq(S) ==
    IF S = {} THEN <<>>
    ELSE LET m == CHOOSE x \in S : \A y \in S : x <= y
         IN  <<m>> \o SortedSeq(S \ {m})

MapSeq(F(_), sq) == [i \in 1..Len(sq) |-> F(sq[i])]

(* formset.get_queryset(): the child rows of the formset's parent, by id. *)
RelatedIds(parent, rel) ==
    {i \in 1..MaxRel : rel[i] # None /\ parent # 0 /\ Val(rel[i]).parent = parent}

formset_data_revert(fs, rel) ==
    LET F(i) == related_to_dict(i, Val(rel[i]))
    IN  MapSeq(F, SortedSeq(RelatedIds(fs.parent, rel)))

formset_data_changed(fs) ==
    LET kept(i) == ~fs.forms[i].delete
        F(i) == [id |-> i, parent |-> fs.parent, text |-> fs.forms[i].text]
        G(x) == [id |-> 0, parent |-> fs.parent, text |-> x]
    IN  MapSeq(F, SelectSeq(SortedSeq(DOMAIN fs.forms), kept)) \o MapSeq(G, fs.extra)

(* formset.save(): deleted forms' rows removed, the others written, the    *)
(* extra forms inserted with the next identities.                          *)
FormsetSaved(fs, rel, nxt) ==
    [i \in 1..MaxRel |->
        IF i \in DOMAIN fs.forms
        THEN IF fs.forms[i].delete THEN None
             ELSE Some([parent |-> fs.parent, text |-> fs.forms[i].text])
        ELSE IF i >= nxt /\ i - nxt + 1 <= Len(fs.extra)
             THEN Some([parent |-> fs.parent, text |-> fs.extra[i - nxt + 1]])
             ELSE rel[i]]

(* The formsets a request can submit for a parent. *)
Formsets(parent, rel, nxt) ==
    {[parent |-> parent, forms |-> f, extra |-> e] :
        f \in [RelatedIds(parent, rel) -> [text : Texts, delete : BOOLEAN]],
        e \in UNION {[1..n -> Texts] : n \in 0..(MaxRel + 1 - nxt)}}

(***************************************************************************)
(* The state of a worker thread's operation.                               *)
(***************************************************************************)
Instances == [pk : 0..MaxPk, name : Names, pub_date : Dates, comment : Comments]

NoInstance == [pk |-> 0, name |-> "", pub_date |-> 0, comment |-> ""]
NoFormset == [parent |-> 0, forms |-> <<>>, extra |-> <<>>]

(* The instances the single worker's operations are called on. *)
WorkerInstances == {i \in Instances : i.comment = "src"}

(* rt: the request_type argument given to ChangeRequest.create (0: none).  *)
(* ret: the value returned by a called function other than create.         *)
(* again: the operation runs on the instance object of the thread's        *)
(* previous operation, no attribute of it but a field assigned since.      *)
(* wrote: whether the operation's underlying write (super().save(),       *)
(* formset.save(), super().delete()) has been performed.                   *)
IdleOp == [pc |-> "idle", kind |-> "", atomic |-> FALSE, inst |-> NoInstance,
           formset |-> NoFormset, rt |-> 0, cr |-> NewChangeRequest,
           saved |-> None, wrote |-> FALSE, ret |-> None, again |-> FALSE]

(* transaction.atomic of the views: the tables as they were on entry. *)
Snapshot == [rows |-> rows, related |-> related, history |-> history]

(* A transaction.atomic block is open. *)
InTransaction == \E t \in Threads : op[t].saved # None

(***************************************************************************)
(* HistoryModel: the record each operation builds before its first persist. *)
(***************************************************************************)
SaveRecord(obj, req, rws) ==
    [create(obj, 0, req, rws) EXCEPT !.status = APPROVED, !.comment = obj.comment]

SaveRelatedRecord(obj, fs, req, rws, rel) ==
    [create(obj, RELATED, req, rws) EXCEPT
        !.related_type = "related",
        !.status = APPROVED,
        !.data_revert = Some(formset_data_revert(fs, rel)),
        !.data_changed = Some(formset_data_changed(fs)),
        !.comment = obj.comment]

DeleteRecord(obj, req, rws) ==
    [create(obj, DELETE, req, rws) EXCEPT !.comment = obj.comment, !.status = APPROVED]

ExplicitType(kind) ==
    IF kind = "save_related" THEN RELATED ELSE IF kind = "delete" THEN DELETE ELSE 0

(* The branch without any guard, and without the `if cr.pk:` guard. *)
ProceedsAlways(kind, cr) == TRUE

ProceedsOnStatus(kind, cr) == kind = "delete" \/ cr.status = APPROVED

(* `if cr.pk:` and `if cr.status == APPROVED:` of save and save_related;   *)
(* delete goes on to super().delete() unconditionally.                     *)
ProceedsToWrite(kind, cr) ==
    kind = "delete" \/ (cr.pk # 0 /\ cr.status = APPROVED)


(***************************************************************************)
(* Initial state: empty tables, no request bound, every thread idle.       *)
(***************************************************************************)
Init ==
    /\ rows = [i \in 1..MaxPk |-> None]
    /\ nextPk = 1
    /\ related = [i \in 1..MaxRel |-> None]
    /\ nextRel = 1
    /\ history = <<>>
    /\ request = [t \in Threads |-> None]
    /\ mw = [t \in Threads |-> "out"]
    /\ op = [t \in Threads |-> IdleOp]

(***************************************************************************)
(* An exception leaves the operation: an enclosing transaction.atomic      *)
(* rolls the tables back to their state on entry.                          *)
(***************************************************************************)
Raises(t) ==
    /\ op' = [op EXCEPT ![t] = [@ EXCEPT !.pc = "failed", !.saved = None]]
    /\ IF op[t].saved # None
       THEN /\ rows' = Val(op[t].saved).rows
            /\ related' = Val(op[t].saved).related
            /\ history' = Val(op[t].saved).history
       ELSE UNCHANGED <<rows, related, history>>
    /\ UNCHANGED <<nextPk, nextRel, request, mw>>

(* An operation is entered only between operations, with room in the     *)
(* bounded history table.                                                  *)
CanStart(t) ==
    /\ op[t].pc = "idle"
    /\ Len(history) < MaxHistory
    /\ ~InTransaction

(* The operation from its call to just before its first cr.save(): the     *)
(* record is built by ChangeRequest.create and the assignments after it,   *)
(* or create raises.                                                       *)
Entered(t, kind, atomic, inst, fs, cr) ==
    IF CreateRaises(inst, ExplicitType(kind), request[t], rows)
    THEN op' = [op EXCEPT ![t] = [IdleOp EXCEPT !.pc = "failed", !.kind = kind,
                    !.atomic = atomic, !.inst = inst, !.formset = fs,
                    !.rt = ExplicitType(kind)]]
    ELSE op' = [op EXCEPT ![t] = [IdleOp EXCEPT !.pc = "persist1", !.kind = kind,
                    !.atomic = atomic, !.inst = inst, !.formset = fs,
                    !.rt = ExplicitType(kind), !.cr = cr,
                    !.saved = IF atomic THEN Some(Snapshot) ELSE None]]

(* HistoryModel.save called directly (atomic FALSE) or by                  *)
(* HistoryFormViewMixin.form_valid under transaction.atomic.               *)
StartSave(t, insts, modes) ==
    /\ CanStart(t)
    /\ \E a \in modes, i \in insts :
        /\ i.pk = 0 => nextPk <= MaxPk
        /\ Entered(t, "save", a, i, NoFormset, SaveRecord(i, Val(get_request(request[t])), rows))
    /\ UNCHANGED <<dbvars, request, mw>>

(* HistoryModel.save_related called directly or by                         *)
(* HistoryFormsetViewMixin.form_valid under transaction.atomic.            *)
StartSaveRelated(t, insts) ==
    /\ CanStart(t)
    /\ \E a \in BOOLEAN, i \in insts :
        /\ i.pub_date = 1000
        /\ \E fs \in Formsets(i.pk, related, nextRel) :
            Entered(t, "save_related", a, i, fs,
                    SaveRelatedRecord(i, fs, Val(get_request(request[t])), rows, related))
    /\ UNCHANGED <<dbvars, request, mw>>

(* HistoryModel.delete. *)
StartDelete(t, insts) ==
    /\ CanStart(t)
    /\ \E i \in insts :
        Entered(t, "delete", FALSE, i, NoFormset, DeleteRecord(i, Val(get_request(request[t])), rows))
    /\ UNCHANGED <<dbvars, request, mw>>

(* The first cr.save(), and the branch on cr.pk and cr.status after it. *)
Persist1(t) ==
    /\ op[t].pc = "persist1"
    /\ LET o == op[t]
           cr == SavedRecord(o.cr, history)
           go == ProceedsToWrite(o.kind, cr)
       IN  /\ history' = SavedHistory(o.cr, history)
           /\ op' = [op EXCEPT ![t] = [@ EXCEPT !.cr = cr,
                        !.pc = IF go THEN "write" ELSE "done",
                        !.saved = IF go THEN @ ELSE None]]
    /\ UNCHANGED <<rows, nextPk, related, nextRel, request, mw>>

(* super().save() that refuses an update of a row that is no longer as     *)
(* the operation read it.                                                  *)
WriteAcceptedIfUnchanged(o, rws) ==
    \/ o.inst.pk = 0
    \/ o.cr.data_revert = None
    \/ /\ rws[o.inst.pk] # None
       /\ filter_data(Val(rws[o.inst.pk]), DOMAIN Val(o.cr.data_revert))
            = Val(o.cr.data_revert)

(* super().save() of an instance with a pk is an UPDATE by pk of every     *)
(* field: nothing compares the row with what the operation read.           *)
WriteAccepted(o, rws) == TRUE

(* super().save(): an insert assigns the next identity, an update writes   *)
(* the row of the instance's identity.                                     *)
WriteSave(t) ==
    /\ op[t].pc = "write"
    /\ op[t].kind = "save"
    /\ WriteAccepted(op[t], rows)
    /\ LET o == op[t]
           pk == IF o.inst.pk = 0 THEN nextPk ELSE o.inst.pk
       IN  /\ pk <= MaxPk
           /\ rows' = [rows EXCEPT ![pk] = Some(model_to_dict(o.inst))]
           /\ nextPk' = IF o.inst.pk = 0 THEN nextPk + 1 ELSE nextPk
           /\ op' = [op EXCEPT ![t] = [@ EXCEPT !.pc = "persist2", !.inst.pk = pk,
                        !.wrote = TRUE]]
    /\ UNCHANGED <<related, nextRel, history, request, mw>>

(* formset.save(): possible only for a parent whose row exists. *)
WriteRelated(t) ==
    /\ op[t].pc = "write"
    /\ op[t].kind = "save_related"
    /\ op[t].inst.pk # 0
    /\ rows[op[t].inst.pk] # None
    /\ related' = FormsetSaved(op[t].formset, related, nextRel)
    /\ nextRel' = nextRel + Len(op[t].formset.extra)
    /\ op' = [op EXCEPT ![t] = [@ EXCEPT !.pc = "persist2", !.wrote = TRUE]]
    /\ UNCHANGED <<rows, nextPk, history, request, mw>>

(* The ChangeRequest table if deleting a subject took its records along. *)
HistoryCascade(h, pk) ==
    LET refers(r) == r.object_id # pk
    IN  SelectSeq(h, refers)

(* The ChangeRequest table after the row pk of a tracked model is deleted: *)
(* object_id is a plain integer column under a GenericForeignKey and the   *)
(* tracked model declares no GenericRelation, so nothing cascades to it.   *)
HistoryAfterDelete(h, pk) == h

(* super().delete(): refused for an instance without identity; removes the *)
(* row, its child rows with it (on_delete=CASCADE), and clears the pk.     *)
WriteDelete(t) ==
    /\ op[t].pc = "write"
    /\ op[t].kind = "delete"
    /\ op[t].inst.pk # 0
    /\ rows' = [rows EXCEPT ![op[t].inst.pk] = None]
    /\ related' = [i \in 1..MaxRel |->
                     IF related[i] # None /\ Val(related[i]).parent = op[t].inst.pk
                     THEN None ELSE related[i]]
    /\ history' = HistoryAfterDelete(history, op[t].inst.pk)
    /\ op' = [op EXCEPT ![t] = [@ EXCEPT !.pc = "done", !.saved = None, !.inst.pk = 0,
                        !.wrote = TRUE]]
    /\ UNCHANGED <<nextPk, nextRel, request, mw>>

(* The underlying write fails (a database error, a refused delete). *)
WriteRaise(t) ==
    /\ op[t].pc = "write"
    /\ Raises(t)

(* The second persist without the refresh of data_changed. *)
RestampedObjectOnly(o, rel) ==
    IF o.kind = "save" THEN set_object(o.cr, o.inst) ELSE o.cr

(* The record as changed before the second persist.                        *)
(* save: cr.set_object(self).                                              *)
(* save_related: cr.data_changed = formset_data_revert(formset).           *)
Restamped(o, rel) ==
    IF o.kind = "save" THEN set_object(o.cr, o.inst)
    ELSE [o.cr EXCEPT !.data_changed = Some(formset_data_revert(o.formset, rel))]

(* The second cr.save() of save and save_related. *)
Persist2(t) ==
    /\ op[t].pc = "persist2"
    /\ LET o == op[t]
           cr == Restamped(o, related)
       IN  /\ history' = SavedHistory(cr, history)
           /\ op' = [op EXCEPT ![t] = [@ EXCEPT !.cr = SavedRecord(cr, history),
                        !.pc = "done", !.saved = None]]
    /\ UNCHANGED <<rows, nextPk, related, nextRel, request, mw>>

(* The operation has returned or its exception was handled by the caller. *)
Finish(t) ==
    /\ op[t].pc \in {"done", "failed"}
    /\ op' = [op EXCEPT ![t] = IdleOp]
    /\ UNCHANGED <<dbvars, request, mw>>

(***************************************************************************)
(* ChangeRequestMiddleware.__call__ (middleware.py).                       *)
(***************************************************************************)
(* The assignment if thread were an object shared by the threads. *)
BoundForAll(binding, t, r) == [u \in Threads |-> Some(r)]

(* ChangeRequest.thread is a threading.local(): the assignment of its      *)
(* request attribute is seen by the assigning thread only.                 *)
Bound(binding, t, r) == [binding EXCEPT ![t] = Some(r)]

(* ChangeRequest.thread.request = request *)
MwCall(t, reqs) ==
    /\ mw[t] = "out"
    /\ op[t].pc = "idle"
    /\ \E r \in reqs : request' = Bound(request, t, r)
    /\ mw' = [mw EXCEPT ![t] = "in"]
    /\ UNCHANGED <<dbvars, op>>

(* get_response returned: del ChangeRequest.thread.request *)
MwReturn(t) ==
    /\ mw[t] = "in"
    /\ op[t].pc = "idle"
    /\ request' = [request EXCEPT ![t] = None]
    /\ mw' = [mw EXCEPT ![t] = "out"]
    /\ UNCHANGED <<dbvars, op>>

(* get_response raised: the exception leaves __call__ before the del. *)
MwRaise(t) ==
    /\ mw[t] = "in"
    /\ op[t].pc \in {"idle", "failed"}
    /\ mw' = [mw EXCEPT ![t] = "out"]
    /\ op' = [op EXCEPT ![t] = IdleOp]
    /\ UNCHANGED <<dbvars, request>>

Step(t) ==
    \/ StartSave(t, WorkerInstances, BOOLEAN)
    \/ StartSaveRelated(t, WorkerInstances)
    \/ StartDelete(t, WorkerInstances)
    \/ Persist1(t)
    \/ WriteSave(t)
    \/ WriteRelated(t)
    \/ WriteDelete(t)
    \/ WriteRaise(t)
    \/ Persist2(t)
    \/ Finish(t)
    \/ MwCall(t, {RequestOf[t]})
    \/ MwReturn(t)
    \/ MwRaise(t)

(* One worker thread: the units of work run one at a time. *)
Next == Step(Worker)

Spec == Init /\ [][Next]_vars


(***************************************************************************)
(* A stored ChangeRequest is loaded, given another status and saved:       *)
(* cr = ChangeRequest.objects.get(pk=k); cr.status = s; cr.save().         *)
(***************************************************************************)
Loaded(k) ==
    [pk |-> k, object_id |-> history[k].object_id, object_str |-> history[k].object_str,
     related_type |-> history[k].related_type, request_type |-> history[k].request_type,
     status |-> history[k].status, data_revert |-> history[k].data_revert,
     data_changed |-> history[k].data_changed, comment |-> history[k].comment,
     user |-> history[k].user, user_ip |-> history[k].user_ip,
     mod |-> history[k].mod, mod_ip |-> history[k].mod_ip]

ChangeStatus(t) ==
    /\ op[t].pc = "idle"
    /\ \E k \in 1..Len(history), s \in Statuses :
        /\ s # history[k].status
        /\ history' = SavedHistory([Loaded(k) EXCEPT !.status = s], history)
    /\ UNCHANGED <<rows, nextPk, related, nextRel, request, mw, op>>

NextModeration == Next \/ ChangeStatus(Worker)

SpecModeration == Init /\ [][NextModeration]_vars


(***************************************************************************)
(* ChangeRequest.create called by itself, for any instance and any         *)
(* request_type argument (0: none), with or without a request bound: the   *)
(* operation ends "done" with the returned record or "failed" when create  *)
(* raised.                                                                 *)
(***************************************************************************)
RequestTypes == {0, ADD, MODIFY, DELETE, RELATED}

(* Instances as __init__ leaves the comment, which create does not read. *)
FreshInstances == {i \in Instances : i.comment = ""}

CallCreate(t) ==
    /\ op[t].pc = "idle"
    /\ \E obj \in FreshInstances, rt \in RequestTypes :
        op' = [op EXCEPT ![t] =
                IF CreateRaises(obj, rt, request[t], rows)
                THEN [IdleOp EXCEPT !.pc = "failed", !.kind = "create",
                                    !.inst = obj, !.rt = rt]
                ELSE [IdleOp EXCEPT !.pc = "done", !.kind = "create",
                                    !.inst = obj, !.rt = rt,
                                    !.cr = create(obj, rt, Val(get_request(request[t])), rows)]]
    /\ UNCHANGED <<dbvars, request, mw>>

NextCreate == Next \/ CallCreate(Worker)

SpecCreate == Init /\ [][NextCreate]_vars


(***************************************************************************)
(* A second save() on the same instance object: obj.comment = c;           *)
(* obj.save(); obj.name = n; obj.save().  The instance keeps its pk and    *)
(* its comment attribute, which only __init__ and the caller assign.       *)
(***************************************************************************)
SaveAgain(t) ==
    /\ op[t].pc = "done"
    /\ op[t].kind = "save"
    /\ op[t].cr.pk # 0
    /\ Len(history) < MaxHistory
    /\ ~InTransaction
    /\ \E n \in Names :
        LET i == [op[t].inst EXCEPT !.name = n]
        IN  op' = [op EXCEPT ![t] =
                IF CreateRaises(i, 0, request[t], rows)
                THEN [IdleOp EXCEPT !.pc = "failed", !.kind = "save", !.inst = i,
                                    !.again = TRUE]
                ELSE [IdleOp EXCEPT !.pc = "persist1", !.kind = "save", !.inst = i,
                                    !.again = TRUE,
                                    !.cr = SaveRecord(i, Val(get_request(request[t])), rows)]]
    /\ UNCHANGED <<dbvars, request, mw>>

NextReuse == Next \/ SaveAgain(Worker)

SpecReuse == Init /\ [][NextReuse]_vars


(***************************************************************************)
(* Two worker threads, each handling its own request, save the same        *)
(* existing row directly.  The row and its ADD record are there from the   *)
(* start, as a completed save of a new instance leaves them.               *)
(***************************************************************************)
FirstInstance == [pk |-> 0, name |-> "john", pub_date |-> 1000, comment |-> "src"]

FirstRecord ==
    Stored([set_object(SaveRecord(FirstInstance, RequestOf[Worker],
                                  [i \in 1..MaxPk |-> None]),
                       [FirstInstance EXCEPT !.pk = 1])
               EXCEPT !.pk = 1])

InitConcurrent ==
    /\ rows = [i \in 1..MaxPk |-> IF i = 1 THEN Some(model_to_dict(FirstInstance)) ELSE None]
    /\ nextPk = 2
    /\ related = [i \in 1..MaxRel |-> None]
    /\ nextRel = 1
    /\ history = <<FirstRecord>>
    /\ request = [t \in Threads |-> None]
    /\ mw = [t \in Threads |-> "out"]
    /\ op = [t \in Threads |-> IdleOp]

(* The instances of the stored row a request can save. *)
ExistingInstances == {i \in WorkerInstances : i.pk = 1}

StepSave(t) ==
    \/ MwCall(t, {RequestOf[t]})
    \/ StartSave(t, ExistingInstances, {FALSE})
    \/ Persist1(t)
    \/ WriteSave(t)
    \/ Persist2(t)
    \/ Finish(t)
    \/ MwReturn(t)

NextConcurrent == \E t \in Threads : StepSave(t)

SpecConcurrent == InitConcurrent /\ [][NextConcurrent]_vars


(***************************************************************************)
(* ChangeRequest.diff of a stored record that is not RELATED.  A rendered  *)
(* dictionary is the sequence of its <<field, value>> pairs, in the order  *)
(* of the model's fields (_meta.get_fields()).                             *)
(***************************************************************************)
FieldOrder == <<"name", "pub_date">>

order_fields(data) ==
    LET In(f) == f \in DOMAIN data
        Pair(f) == <<f, data[f]>>
    IN  MapSeq(Pair, SelectSeq(FieldOrder, In))

(* diff raises: with data_revert None it renders data_changed, and         *)
(* order_fields tests `f.name in data` on None.                            *)
DiffRaises(cr) == cr.data_revert = None /\ cr.data_changed = None

diff(cr) ==
    IF cr.data_revert = None THEN order_fields(Val(cr.data_changed))
    ELSE IF cr.data_changed = None THEN order_fields(Val(cr.data_revert))
    ELSE LET dr == Val(cr.data_revert)
             dc == Val(cr.data_changed)
             result == [k \in {x \in DOMAIN dc : x \notin DOMAIN dr \/ dr[x] # dc[x]}
                           |-> dc[k]]
         IN  order_fields(result)

CallDiff(t) ==
    /\ op[t].pc = "idle"
    /\ \E k \in 1..Len(history) :
        /\ history[k].request_type # RELATED
        /\ op' = [op EXCEPT ![t] =
                IF DiffRaises(Loaded(k))
                THEN [IdleOp EXCEPT !.pc = "failed", !.kind = "diff", !.cr = Loaded(k)]
                ELSE [IdleOp EXCEPT !.pc = "done", !.kind = "diff", !.cr = Loaded(k),
                                    !.ret = Some(diff(Loaded(k)))]]
    /\ UNCHANGED <<dbvars, request, mw>>

NextRender == Next \/ CallDiff(Worker)

SpecRender == Init /\ [][NextRender]_vars


(***************************************************************************)
(* get_ip_from_request called on a request with any X-Forwarded-For header *)
(* of up to MaxHeaderLen characters, or none.  "1" stands for the          *)
(* characters of an address.                                               *)
(***************************************************************************)
HeaderChars == {"1", ",", "\"", " ", "\\"}

Headers ==
    {None} \cup {Some(h) : h \in UNION {[1..n -> HeaderChars] : n \in 0..MaxHeaderLen}}

CallGetIp(t) ==
    /\ op[t].pc = "idle"
    /\ \E h \in Headers :
        LET req == [user |-> "alice",
                    META |-> [HTTP_X_FORWARDED_FOR |-> h, REMOTE_ADDR |-> "10.0.0.1"]]
        IN  op' = [op EXCEPT ![t] = [IdleOp EXCEPT !.pc = "done",
                        !.kind = "get_ip_from_request",
                        !.ret = Some([request |-> req,
                                      ip |-> get_ip_from_request(req)])]]
    /\ UNCHANGED <<dbvars, request, mw>>

NextOrigin == CallGetIp(Worker) \/ Finish(Worker)

SpecOrigin == Init /\ [][NextOrigin]_vars


(***************************************************************************)
(* model_to_dict on instances of models with every kind of field it        *)
(* distinguishes: Book (AutoField id, CharField, ForeignKey,               *)
(* ManyToManyField) and Files (BinaryField, FileField, ImageField), both   *)
(* with HistoryModel's date_created (auto_now_add, so not editable).       *)
(* An instance holds, per field, what the field gives for it: the          *)
(* referenced identity of a ForeignKey (0: None), the related objects of a *)
(* ManyToManyField, the FieldFile of a FileField.                          *)
(***************************************************************************)
BookMeta ==
    <<[name |-> "id", kind |-> "pk", editable |-> TRUE],
      [name |-> "date_created", kind |-> "plain", editable |-> FALSE],
      [name |-> "title", kind |-> "plain", editable |-> TRUE],
      [name |-> "author", kind |-> "fk", editable |-> TRUE],
      [name |-> "editor", kind |-> "m2m", editable |-> TRUE]>>

FilesMeta ==
    <<[name |-> "id", kind |-> "pk", editable |-> TRUE],
      [name |-> "date_created", kind |-> "plain", editable |-> FALSE],
      [name |-> "binary", kind |-> "plain", editable |-> FALSE],
      [name |-> "file_field", kind |-> "file", editable |-> TRUE],
      [name |-> "image_field", kind |-> "file", editable |-> TRUE]>>

BookInstances ==
    [id : {0, 1}, date_created : {1000}, title : {"a", "b"}, author : {0, 1, 2},
     editor : {<<>>, <<[pk |-> 1]>>, <<[pk |-> 1], [pk |-> 2]>>,
               <<[pk |-> 2], [pk |-> 1]>>}]

FilesInstances ==
    [id : {0, 1}, date_created : {1000}, binary : {"GIF89a"},
     file_field : {[name |-> ""], [name |-> "test.txt"]},
     image_field : {[name |-> ""], [name |-> "tiny.gif"]}]

(* Field.value_from_object: a ManyToManyField gives [] for an instance     *)
(* without pk.                                                             *)
value_from_object(f, instance) ==
    IF f.kind = "m2m" /\ instance.id = 0 THEN <<>> ELSE instance[f.name]

(* django.forms.models.model_to_dict: the editable fields. *)
RawFields(meta) == {meta[i].name : i \in {j \in 1..Len(meta) : meta[j].editable}}

FieldOf(meta, n) == meta[CHOOSE i \in 1..Len(meta) : meta[i].name = n]

(* model_to_dict that keeps the primary key whatever exclude_pk is. *)
model_to_dict_keeping_pk(meta, instance, exclude_pk) ==
    [n \in RawFields(meta) |->
        IF FieldOf(meta, n).kind = "m2m"
        THEN MapSeq(LAMBDA o : o.pk, value_from_object(FieldOf(meta, n), instance))
        ELSE IF FieldOf(meta, n).kind = "file"
        THEN value_from_object(FieldOf(meta, n), instance).name
        ELSE value_from_object(FieldOf(meta, n), instance)]

(* utils.model_to_dict(instance, exclude_pk) for a model with fields meta. *)
model_to_dict_of(meta, instance, exclude_pk) ==
    LET Included(n) ==
            \/ FieldOf(meta, n).kind \in {"m2m", "file"}
            \/ ~exclude_pk
            \/ FieldOf(meta, n).kind # "pk"
    IN  [n \in {x \in RawFields(meta) : Included(x)} |->
            IF FieldOf(meta, n).kind = "m2m"
            THEN MapSeq(LAMBDA o : o.pk, value_from_object(FieldOf(meta, n), instance))
            ELSE IF FieldOf(meta, n).kind = "file"
            THEN value_from_object(FieldOf(meta, n), instance).name
            ELSE value_from_object(FieldOf(meta, n), instance)]

CallModelToDict(t) ==
    /\ op[t].pc = "idle"
    /\ \E x \in BOOLEAN :
        \/ \E b \in BookInstances :
            op' = [op EXCEPT ![t] = [IdleOp EXCEPT !.pc = "done",
                        !.kind = "model_to_dict",
                        !.ret = Some([model |-> "Book", instance |-> b,
                                      exclude_pk |-> x,
                                      data |-> model_to_dict_of(BookMeta, b, x)])]]
        \/ \E f \in FilesInstances :
            op' = [op EXCEPT ![t] = [IdleOp EXCEPT !.pc = "done",
                        !.kind = "model_to_dict",
                        !.ret = Some([model |-> "Files", instance |-> f,
                                      exclude_pk |-> x,
                                      data |-> model_to_dict_of(FilesMeta, f, x)])]]
    /\ UNCHANGED <<dbvars, request, mw>>

NextDict == CallModelToDict(Worker) \/ Finish(Worker)

SpecDict == Init /\ [][NextDict]_vars


(***************************************************************************)
(* changed_keys called on two dictionaries of field values, as             *)
(* model_to_dict gives them for a model with a CharField, a ForeignKey and *)
(* a ManyToManyField (Book: title, author, editor), any fields missing.    *)
(* The call is made in both orders of the arguments; the dictionaries are  *)
(* kept as the snapshots of a MODIFY record.                               *)
(***************************************************************************)
DictKeys == {"title", "author", "editor"}

FullDicts == [title : {"a", "b"}, author : {1, 2},
              editor : {<<1>>, <<1, 2>>, <<2, 1>>}]

Dicts == {[k \in S |-> d[k]] : d \in FullDicts, S \in SUBSET DictKeys}

CallChangedKeys(t) ==
    /\ op[t].pc = "idle"
    /\ \E a \in Dicts, b \in Dicts :
        op' = [op EXCEPT ![t] = [IdleOp EXCEPT !.pc = "done",
                    !.kind = "changed_keys",
                    !.cr = [NewChangeRequest EXCEPT !.request_type = MODIFY,
                                !.data_revert = Some(a), !.data_changed = Some(b)],
                    !.ret = Some([ab |-> changed_keys(a, b),
                                  ba |-> changed_keys(b, a)])]]
    /\ UNCHANGED <<dbvars, request, mw>>

NextKeys == CallChangedKeys(Worker) \/ Finish(Worker)

SpecKeys == Init /\ [][NextKeys]_vars


(***************************************************************************)
(* ChangeRequest.diff_related, on the lists of row dicts of a RELATED      *)
(* record; the primary key field of the child model is "id" (0: no value). *)
(***************************************************************************)
diff_related(cr) ==
    LET before == IF cr.data_revert = None THEN <<>> ELSE Val(cr.data_revert)
        after == IF cr.data_changed = None THEN <<>> ELSE Val(cr.data_changed)
        existing == {before[i].id : i \in {j \in 1..Len(before) : before[j].id # 0}}
        IsExisting(item) == item.id # 0 /\ item.id \in existing
        IsNew(item) == ~IsExisting(item)
        (* changed[item[pk]] = item: a later item replaces an earlier one *)
        Last(id) == CHOOSE j \in 1..Len(after) :
                        /\ after[j].id = id
                        /\ \A k \in (j+1)..Len(after) : after[k].id # id
        changed == [id \in {after[j].id : j \in {k \in 1..Len(after) : IsExisting(after[k])}}
                        |-> after[Last(id)]]
        Diff(item) == changed_keys(item, changed[item.id])
        IsModified(item) == item.id \in DOMAIN changed /\ Diff(item) # {}
        IsDeleted(item) == item.id \notin DOMAIN changed
        Row(id) == before[CHOOSE j \in 1..Len(before) : before[j].id = id]
        Id(item) == item.id
    IN  [added |-> SelectSeq(after, IsNew),
         modified |-> [id \in {before[j].id : j \in {k \in 1..Len(before) : IsModified(before[k])}}
                          |-> Diff(Row(id))],
         deleted |-> MapSeq(Id, SelectSeq(before, IsDeleted)),
         existing |-> [id \in {before[j].id : j \in 1..Len(before)}
                          |-> IF IsModified(Row(id)) THEN changed[id] ELSE Row(id)]]

(* The rows of a child table as formset_data_revert lists them: distinct   *)
(* identities, in order.                                                   *)
DiffRow(id, text) == [id |-> id, parent |-> 1, text |-> text]

DiffBefore ==
    {MapSeq(LAMBDA i : DiffRow(i, f[i]), SortedSeq(DOMAIN f)) :
        f \in UNION {[S -> Texts] : S \in SUBSET (1..MaxDiffId)}}

(* The rows of data_changed: any rows, with or without an identity, no     *)
(* identity twice (a formset has one form per instance).                   *)
DiffAfter ==
    {sq \in UNION {[1..n -> {DiffRow(i, x) : i \in 0..MaxDiffId, x \in Texts}]
                     : n \in 0..MaxDiffLen} :
        \A i, j \in 1..Len(sq) : (i # j /\ sq[i].id # 0) => sq[i].id # sq[j].id}

CallDiffRelated(t) ==
    /\ op[t].pc = "idle"
    /\ \E b \in DiffBefore, a \in DiffAfter :
        LET cr == [NewChangeRequest EXCEPT !.request_type = RELATED,
                        !.related_type = "related",
                        !.data_revert = Some(b), !.data_changed = Some(a)]
        IN  op' = [op EXCEPT ![t] = [IdleOp EXCEPT !.pc = "done",
                        !.kind = "diff_related", !.cr = cr,
                        !.ret = Some(diff_related(cr))]]
    /\ UNCHANGED <<dbvars, request, mw>>

NextDiff == CallDiffRelated(Worker) \/ Finish(Worker)

SpecDiff == Init /\ [][NextDiff]_vars


(***************************************************************************)
(* Properties.                                                             *)
(***************************************************************************)
(* The operation's record is in the ChangeRequest table as last saved. *)
Persisted(o) ==
    /\ o.cr.pk \in 1..Len(history)
    /\ history[o.cr.pk] = Stored(o.cr)

(* No request is left bound to a thread that is outside the middleware. *)
NoLeakedBinding == \A t \in Threads : mw[t] = "out" => request[t] = None

(* The committed ChangeRequest table: the table as it was on entry while a *)
(* transaction.atomic block is open.                                       *)
CommittedHistory ==
    IF \E t \in Threads : op[t].saved # None
    THEN Val(op[CHOOSE t \in Threads : op[t].saved # None].saved).history
    ELSE history

ValidTransitions ==
    {<<PENDING, APPROVED>>, <<PENDING, DENIED>>, <<PENDING, WITHDRAWN>>,
     <<APPROVED, REVERTED>>}

(* C1: when the underlying write of save, save_related or delete fails     *)
(* after the Change Record was persisted, no APPROVED Change Record of     *)
(* that operation remains persisted, also for a direct call.               *)
C1_NoApprovedRecordAfterFailedWrite ==
    \A t \in Threads :
        (NoLeakedBinding /\ op[t].pc = "failed" /\ op[t].cr.pk # 0)
            => ~(Persisted(op[t]) /\ history[op[t].cr.pk].status = APPROVED)

(* C2: every underlying write step of save, save_related or delete is      *)
(* taken with the operation's Change Record persisted with status          *)
(* APPROVED, and the tables of rows change in no other step (but a         *)
(* rollback); a record that is not APPROVED never leads to a write.        *)
C2_WriteOnlyAfterApprovedRecord ==
    [][/\ \A t \in Threads :
            (op[t].pc = "write" /\ op'[t].wrote)
                => (Persisted(op[t]) /\ history[op[t].cr.pk].status = APPROVED)
       /\ (rows' # rows \/ related' # related)
            => \E t \in Threads :
                 op[t].pc = "write" /\ (op'[t].wrote \/ op'[t].pc = "failed")]_vars

C2_Witness ==
    \E t \in Threads :
        /\ op[t].kind = "save_related"
        /\ op[t].wrote
        /\ related # [i \in 1..MaxRel |-> None]
        /\ history[op[t].cr.pk].status = APPROVED

(* C3: the status of a persisted Change Record only moves                  *)
(* PENDING -> APPROVED, DENIED or WITHDRAWN, or APPROVED -> REVERTED.      *)
C3_OnlyValidStatusTransitions ==
    [][\A k \in 1..Len(history) :
         k <= Len(history')
            => \/ history'[k].status = history[k].status
               \/ <<history[k].status, history'[k].status>> \in ValidTransitions]_vars

(* C4: no persisted Change Record has classification MODIFY or RELATED     *)
(* with snapshot_before equal to snapshot_after.                           *)
C4_NoVacuousRecordPersisted ==
    \A k \in 1..Len(history) :
        (NoLeakedBinding /\ history[k].request_type \in {MODIFY, RELATED})
            => history[k].data_revert # history[k].data_changed

(* C5 as stated: a direct save of an existing entity that is suppressed as *)
(* a no-op still performs the underlying write.                            *)
C5_SuppressedSaveStillWrites ==
    \A t \in Threads :
        (/\ op[t].pc = "done"
         /\ op[t].kind = "save"
         /\ ~op[t].atomic
         /\ op[t].inst.pk # 0
         /\ op[t].cr.pk = 0)
            => op[t].wrote

(* C5 amended: a save of an existing entity that is suppressed as a no-op  *)
(* returns without the underlying write: neither the Change Record nor the *)
(* row is written.                                                         *)
C5_SuppressedSaveWritesNothing ==
    \A t \in Threads :
        (op[t].pc = "done" /\ op[t].kind = "save" /\ op[t].cr.pk = 0)
            => /\ ~op[t].wrote
               /\ op[t].inst.pk # 0
               /\ rows[op[t].inst.pk] = Some(model_to_dict(op[t].inst))
               /\ \A k \in 1..Len(history) : history[k] # Stored(op[t].cr)

C5_Witness ==
    \E t \in Threads :
        /\ op[t].pc = "done"
        /\ op[t].kind = "save"
        /\ ~op[t].atomic
        /\ op[t].cr.pk = 0
        /\ op[t].cr.request_type = MODIFY

(* C6: save persists the Change Record, then (the record persisted and     *)
(* APPROVED) writes the row, then re-stamps the record and persists it     *)
(* again; after a completed save of a new entity the persisted ADD         *)
(* record's subject_id is the identity the row was assigned.               *)
C6_DualWriteOrder ==
    \A t \in Threads :
        op[t].kind = "save" =>
            /\ op[t].pc = "write"
                => (Persisted(op[t]) /\ op[t].cr.status = APPROVED /\ ~op[t].wrote)
            /\ op[t].pc = "persist2"
                => (Persisted(op[t]) /\ op[t].wrote /\ op[t].inst.pk # 0)
            /\ (op[t].pc = "done" /\ op[t].cr.pk # 0)
                => /\ op[t].wrote
                   /\ Persisted(op[t])
                   /\ op[t].inst.pk # 0
                   /\ history[op[t].cr.pk].object_id = op[t].inst.pk
                   /\ rows[op[t].inst.pk] = Some(model_to_dict(op[t].inst))

C6_Witness ==
    \E t \in Threads :
        /\ op[t].pc = "done"
        /\ op[t].kind = "save"
        /\ op[t].cr.pk # 0
        /\ history[op[t].cr.pk].request_type = ADD
        /\ history[op[t].cr.pk].object_id = op[t].inst.pk

(* C7: every persisted Change Record has, for ADD, snapshot_before null    *)
(* and snapshot_after not null; for DELETE, snapshot_after null and        *)
(* snapshot_before not null; for MODIFY and RELATED, both not null.        *)
C7_SnapshotNullness ==
    \A k \in 1..Len(history) :
        LET r == history[k]
        IN  NoLeakedBinding =>
            /\ r.request_type = ADD
                => (r.data_revert = None /\ r.data_changed # None)
            /\ r.request_type = DELETE
                => (r.data_changed = None /\ r.data_revert # None)
            /\ r.request_type \in {MODIFY, RELATED}
                => (r.data_revert # None /\ r.data_changed # None)

(* C8: a persisted Change Record has a null subject_id only if its         *)
(* classification is ADD and the entity has not been assigned an identity. *)
(* (The step between the underlying write and the re-stamp of save leaves  *)
(* the identity assigned and the record not yet re-stamped: that window is *)
(* not held against the statement here.)                                   *)
C8_NullSubjectOnlyForUnsavedAdd ==
    \A k \in 1..Len(history) :
        (NoLeakedBinding /\ history[k].object_id = 0)
            => /\ history[k].request_type = ADD
               /\ \A t \in Threads :
                    (op[t].cr.pk = k /\ op[t].pc # "persist2") => op[t].inst.pk = 0

(* C9: delete of an entity with identity i and label L (its str() while it *)
(* has the identity) builds a DELETE                                       *)
(* record, APPROVED, with subject_id i, subject_label L, snapshot_after    *)
(* null and snapshot_before the persisted field values; the record is      *)
(* persisted while the row is still there, and after the delete the row is *)
(* absent and the record remains.                                          *)
C9_DeleteRecord ==
    \A t \in Threads :
        (op[t].kind = "delete" /\ op[t].cr.object_id # 0) =>
            /\ op[t].pc \in {"write", "done"} =>
                /\ Persisted(op[t])
                /\ history[op[t].cr.pk].request_type = DELETE
                /\ history[op[t].cr.pk].status = APPROVED
                /\ history[op[t].cr.pk].object_str
                        = Str([op[t].inst EXCEPT !.pk = op[t].cr.object_id])
                /\ history[op[t].cr.pk].data_changed = None
            /\ op[t].pc = "write" =>
                /\ ~op[t].wrote
                /\ op[t].cr.object_id = op[t].inst.pk
                /\ rows[op[t].inst.pk] # None
                /\ op[t].cr.data_revert = Some(model_to_dict(Val(rows[op[t].inst.pk])))
            /\ op[t].pc = "done" =>
                /\ op[t].wrote
                /\ rows[op[t].cr.object_id] = None

C9_Witness ==
    \E t \in Threads :
        /\ op[t].kind = "delete"
        /\ op[t].pc = "done"
        /\ op[t].cr.object_id # 0
        /\ rows[op[t].cr.object_id] = None
        /\ model_to_dict(op[t].inst) # Val(op[t].cr.data_revert)

(* C10: after a unit of work handled by the middleware has ended, by a     *)
(* return or by an exception, no request is bound to the worker thread.    *)
C10_NoBindingOutsideUnitOfWork ==
    \A t \in Threads : mw[t] = "out" => request[t] = None

(* C11: a call of ChangeRequest.create, for any entity and any explicit    *)
(* classification, leaves the tables of rows and the ChangeRequest table   *)
(* as they were, and the record it returns has status PENDING and is not   *)
(* persisted (no pk).                                                      *)
C11_CreatePersistsNothing ==
    [][\A t \in Threads :
         (op[t].pc = "idle" /\ op'[t].kind = "create")
            => /\ rows' = rows /\ related' = related /\ history' = history
               /\ nextPk' = nextPk /\ nextRel' = nextRel
               /\ op'[t].pc = "done"
                    => /\ op'[t].cr.status = PENDING
                       /\ op'[t].cr.pk = 0
                       /\ \A k \in 1..Len(history') :
                            history'[k] # Stored(op'[t].cr)]_vars

C11_Witness ==
    \E t \in Threads :
        /\ op[t].kind = "create"
        /\ op[t].pc = "done"
        /\ op[t].rt = DELETE
        /\ op[t].cr.status = PENDING
        /\ Len(history) > 0

(* C12: the record create returns has the explicit classification if one   *)
(* was given; with none, ADD and a null snapshot_before for an entity      *)
(* without identity, MODIFY for an entity with an identity (create builds  *)
(* a fresh record, which has no related type).                             *)
C12_Classification ==
    \A t \in Threads :
        (op[t].kind = "create" /\ op[t].pc = "done") =>
            /\ op[t].cr.related_type = ""
            /\ op[t].rt # 0 => op[t].cr.request_type = op[t].rt
            /\ (op[t].rt = 0 /\ op[t].inst.pk = 0)
                => (op[t].cr.request_type = ADD /\ op[t].cr.data_revert = None)
            /\ (op[t].rt = 0 /\ op[t].inst.pk # 0)
                => op[t].cr.request_type = MODIFY

C12_Witness ==
    \E t \in Threads :
        /\ op[t].kind = "create"
        /\ op[t].pc = "done"
        /\ op[t].rt = 0
        /\ op[t].inst.pk # 0
        /\ op[t].cr.request_type = MODIFY

(* C13: create called with no explicit classification raises only when no  *)
(* request is bound to the thread.                                         *)
C13_CreateFailsOnlyUnbound ==
    \A t \in Threads :
        (op[t].kind = "create" /\ op[t].pc = "failed" /\ op[t].rt = 0)
            => request[t] = None

(* C14: a MODIFY record returned by create for an entity with at least one *)
(* changed field has, as snapshot_before and snapshot_after, the stored    *)
(* row's and the instance's values on exactly the fields whose values      *)
(* differ: the same key set in both, a different value on every key.       *)
C14_ModifySnapshotsAreTheChangedFields ==
    \A t \in Threads :
        (/\ op[t].kind = "create"
         /\ op[t].pc = "done"
         /\ op[t].cr.request_type = MODIFY
         /\ op[t].inst.pk # 0
         /\ rows[op[t].inst.pk] # None
         /\ model_to_dict(op[t].inst) # Val(rows[op[t].inst.pk]))
            => LET before == Val(op[t].cr.data_revert)
                   after == Val(op[t].cr.data_changed)
                   row == Val(rows[op[t].inst.pk])
                   differing == {f \in Fields : row[f] # op[t].inst[f]}
               IN  /\ DOMAIN before = differing
                   /\ DOMAIN after = differing
                   /\ \A f \in differing :
                        /\ before[f] = row[f]
                        /\ after[f] = op[t].inst[f]
                        /\ before[f] # after[f]

C14_Witness ==
    \E t \in Threads :
        /\ op[t].kind = "create"
        /\ op[t].pc = "done"
        /\ op[t].cr.request_type = MODIFY
        /\ op[t].cr.data_revert # None
        /\ DOMAIN Val(op[t].cr.data_revert) = {"pub_date"}
        /\ DOMAIN Val(op[t].cr.data_changed) = {"pub_date"}

(* C15: once a persisted Change Record's status is not PENDING, a later    *)
(* persist changes no field of it other than the moderator fields,         *)
(* subject_id and snapshot_after.                                          *)
C15_FrozenOncePastPending ==
    [][\A k \in 1..Len(history) :
         (k <= Len(history') /\ history[k].status # PENDING)
            => [history'[k] EXCEPT !.mod = "", !.mod_ip = "", !.object_id = 0,
                                   !.data_changed = None]
               = [history[k] EXCEPT !.mod = "", !.mod_ip = "", !.object_id = 0,
                                    !.data_changed = None]]_vars

(* C16: no step of save, save_related or delete removes a committed Change *)
(* Record: the committed ChangeRequest table never gets shorter and every  *)
(* record in it stays, with its classification, its actor and its          *)
(* snapshot_before, also when the row it refers to is deleted.             *)
C16_HistoryOnlyGrows ==
    [][/\ Len(CommittedHistory') >= Len(CommittedHistory)
       /\ \A k \in 1..Len(CommittedHistory) :
            /\ CommittedHistory'[k].request_type = CommittedHistory[k].request_type
            /\ CommittedHistory'[k].user = CommittedHistory[k].user
            /\ CommittedHistory'[k].data_revert = CommittedHistory[k].data_revert]_vars

C16_Witness ==
    \E t \in Threads :
        /\ op[t].kind = "delete"
        /\ op[t].pc = "done"
        /\ op[t].wrote
        /\ Len(history) = 2
        /\ history[1].request_type = ADD
        /\ history[1].object_id = history[2].object_id
        /\ rows[history[1].object_id] = None

(* C17: diff_related classifies the rows of a RELATED record by identity:  *)
(* added is the rows of snapshot_after whose identity is missing or        *)
(* matches no row of snapshot_before, in order; modified maps the          *)
(* identities matched in both with a differing field to the set of         *)
(* differing fields; deleted is the identities of the snapshot_before rows *)
(* without a match; a matched row without a difference is in none.         *)
C17_DiffRelatedByIdentity ==
    \A t \in Threads :
        (op[t].kind = "diff_related" /\ op[t].pc = "done") =>
            LET before == Val(op[t].cr.data_revert)
                after == Val(op[t].cr.data_changed)
                res == Val(op[t].ret)
                BeforeIds == {before[i].id : i \in 1..Len(before)}
                AfterIds == {after[i].id : i \in 1..Len(after)} \ {0}
                Unmatched(row) == row.id = 0 \/ row.id \notin BeforeIds
                Gone(row) == row.id \notin AfterIds
                B(id) == before[CHOOSE i \in 1..Len(before) : before[i].id = id]
                A(id) == after[CHOOSE i \in 1..Len(after) : after[i].id = id]
                Differing(id) == {f \in {"id", "parent", "text"} : B(id)[f] # A(id)[f]}
                AddedIds == {res.added[i].id : i \in 1..Len(res.added)} \ {0}
                DeletedIds == {res.deleted[i] : i \in 1..Len(res.deleted)}
            IN  /\ res.added = SelectSeq(after, Unmatched)
                /\ DOMAIN res.modified
                     = {id \in BeforeIds \cap AfterIds : Differing(id) # {}}
                /\ \A id \in DOMAIN res.modified : res.modified[id] = Differing(id)
                /\ Len(res.deleted) = Len(SelectSeq(before, Gone))
                /\ DeletedIds = BeforeIds \ AfterIds
                /\ \A id \in BeforeIds \cap AfterIds :
                     Differing(id) = {}
                        => /\ id \notin DOMAIN res.modified
                           /\ id \notin DeletedIds
                           /\ id \notin AddedIds

(* One new row without identity, one modified row, one row absent from the *)
(* new list, one row unchanged.                                            *)
C17_Witness ==
    \E t \in Threads :
        /\ op[t].kind = "diff_related"
        /\ op[t].pc = "done"
        /\ Len(Val(op[t].cr.data_revert)) = 3
        /\ Len(Val(op[t].ret).added) = 1
        /\ Val(op[t].ret).added[1].id = 0
        /\ DOMAIN Val(op[t].ret).modified = {1}
        /\ Val(op[t].ret).modified[1] = {"text"}
        /\ Val(op[t].ret).deleted = <<2>>

C19_CommentOnlyOnNextRecord ==
    \A t \in Threads :
        (op[t].again /\ op[t].cr.pk # 0 /\ Persisted(op[t]))
            => history[op[t].cr.pk].comment = ""

C21_ChangedKeysSharedAndDiffering ==
    \A t \in Threads :
        (op[t].kind = "changed_keys" /\ op[t].pc = "done") =>
            LET a == Val(op[t].cr.data_revert)
                b == Val(op[t].cr.data_changed)
                res == Val(op[t].ret).ab
            IN  /\ \A k \in DictKeys :
                     k \in res <=> (k \in DOMAIN a /\ k \in DOMAIN b /\ a[k] # b[k])
                /\ res \subseteq DictKeys
                /\ (DOMAIN a) \cap (DOMAIN b) = {} => res = {}

(* A field with different values on both sides is reported, a field only   *)
(* one side has is not.                                                    *)
C21_Witness ==
    \E t \in Threads :
        /\ op[t].kind = "changed_keys"
        /\ op[t].pc = "done"
        /\ DOMAIN Val(op[t].cr.data_revert) = {"title", "author"}
        /\ DOMAIN Val(op[t].cr.data_changed) = {"title", "editor"}
        /\ Val(op[t].ret).ab = {"title"}

(* C22: changed_keys(A, B) and changed_keys(B, A) hold the same field      *)
(* names.                                                                  *)
C22_ChangedKeysSymmetric ==
    \A t \in Threads :
        (op[t].kind = "changed_keys" /\ op[t].pc = "done")
            => Val(op[t].ret).ab = Val(op[t].ret).ba

C22_Witness ==
    \E t \in Threads :
        /\ op[t].kind = "changed_keys"
        /\ op[t].pc = "done"
        /\ DOMAIN Val(op[t].cr.data_revert) = {"title", "author", "editor"}
        /\ DOMAIN Val(op[t].cr.data_changed) = {"author", "editor"}
        /\ Val(op[t].ret).ab = {"author"}
        /\ Val(op[t].ret).ba = {"author"}

(* C26: a many-to-many field holding the same identities on both sides in  *)
(* another order is not reported by changed_keys, and a MODIFY whose       *)
(* snapshots differ only in that order is not persisted.                   *)
C26_ManyToManyOrderInsignificant ==
    \A t \in Threads :
        (op[t].kind = "changed_keys" /\ op[t].pc = "done") =>
            LET a == Val(op[t].cr.data_revert)
                b == Val(op[t].cr.data_changed)
                Ids(sq) == {sq[i] : i \in 1..Len(sq)}
                SameIds == /\ "editor" \in (DOMAIN a) \cap (DOMAIN b)
                           /\ Ids(a["editor"]) = Ids(b["editor"])
            IN  /\ SameIds => "editor" \notin Val(op[t].ret).ab
                /\ (/\ SameIds
                    /\ DOMAIN a = DOMAIN b
                    /\ \A k \in DOMAIN a \ {"editor"} : a[k] = b[k])
                        => ~ShouldPersist(op[t].cr)

(* C23: diff() of every persisted ADD, MODIFY or DELETE record renders,    *)
(* in the order of the model's fields, every field of snapshot_after for   *)
(* an ADD, every field of snapshot_before for a DELETE, and for a MODIFY   *)
(* the fields of snapshot_after that snapshot_before has not or has with   *)
(* another value.                                                          *)
C23_DiffRendersByClassification ==
    \A t \in Threads :
        op[t].kind = "diff" =>
            /\ op[t].pc # "failed"
            /\ op[t].pc = "done" =>
                LET cr == op[t].cr
                    out == Val(op[t].ret)
                    Names_ == {out[i][1] : i \in 1..Len(out)}
                    Pos(f) == CHOOSE i \in 1..Len(FieldOrder) : FieldOrder[i] = f
                    shown == IF cr.request_type = ADD THEN Val(cr.data_changed)
                             ELSE IF cr.request_type = DELETE THEN Val(cr.data_revert)
                             ELSE [k \in {x \in DOMAIN Val(cr.data_changed) :
                                            \/ x \notin DOMAIN Val(cr.data_revert)
                                            \/ Val(cr.data_revert)[x] # Val(cr.data_changed)[x]}
                                      |-> Val(cr.data_changed)[k]]
                IN  /\ Names_ = DOMAIN shown
                    /\ Len(out) = Cardinality(DOMAIN shown)
                    /\ \A i \in 1..Len(out) : out[i][2] = shown[out[i][1]]
                    /\ \A i, j \in 1..Len(out) : i < j => Pos(out[i][1]) < Pos(out[j][1])

(* C24: get_ip_from_request returns the connection's address when the     *)
(* header is absent or has no entry, and otherwise the header's first      *)
(* entry without its surrounding double quotes.  The entries are the       *)
(* pieces between the commas outside quoted strings (a backslash inside a  *)
(* quoted string takes the next character literally), without their        *)
(* surrounding spaces.                                                     *)
C24_FirstForwardedEntryOrRemoteAddr ==
    \A t \in Threads :
        (op[t].kind = "get_ip_from_request" /\ op[t].pc = "done") =>
            LET req == Val(op[t].ret).request
                ip == Val(op[t].ret).ip
                h == IF req.META.HTTP_X_FORWARDED_FOR = None THEN <<>>
                     ELSE Val(req.META.HTTP_X_FORWARDED_FOR)
                (* the reading mode before the character at i + 1 *)
                Mode[i \in 0..Len(h)] ==
                    IF i = 0 THEN "plain"
                    ELSE IF Mode[i - 1] = "escape" THEN "quote"
                    ELSE IF Mode[i - 1] = "quote"
                         THEN (IF h[i] = "\\" THEN "escape"
                               ELSE IF h[i] = "\"" THEN "plain" ELSE "quote")
                    ELSE (IF h[i] = "\"" THEN "quote" ELSE "plain")
                Commas == {i \in 1..Len(h) : h[i] = "," /\ Mode[i - 1] = "plain"}
                End == IF Commas = {} THEN Len(h) + 1
                       ELSE CHOOSE i \in Commas : \A j \in Commas : i <= j
                Kept(i) == ~(Mode[i - 1] = "quote" /\ h[i] = "\\")
                Positions == SelectSeq([i \in 1..(End - 1) |-> i], Kept)
                first == strip([i \in 1..Len(Positions) |-> h[Positions[i]]], {" "})
                HasEntry == h # <<>>
            IN  /\ ~HasEntry => ip = req.META.REMOTE_ADDR
                /\ HasEntry => ip = Join(strip(first, {"\""}))
                /\ HasEntry => (first = <<>> \/ strip(first, {"\""}) = <<>>
                                \/ (Head(strip(first, {"\""})) # "\""
                                    /\ strip(first, {"\""})[Len(strip(first, {"\""}))] # "\""))

(* The header 1,"1," has two entries, the second a quoted string with a    *)
(* comma in it; the first is returned.                                     *)
C24_Witness ==
    \E t \in Threads :
        /\ op[t].kind = "get_ip_from_request"
        /\ op[t].pc = "done"
        /\ Val(op[t].ret).request.META.HTTP_X_FORWARDED_FOR
             = Some(<<"1", ",", "\"", "1", ",", "\"">>)
        /\ Len(parse_http_list(<<"1", ",", "\"", "1", ",", "\"">>)) = 2
        /\ Val(op[t].ret).ip = "1"

(* C25: model_to_dict(entity, exclude_pk) has a key for every editable     *)
(* field, but for the primary key when exclude_pk is true; a reference     *)
(* field has the referenced identity (or null), a multi-reference field    *)
(* the list of the referenced identities, a file field a string, any other *)
(* field its value.                                                        *)
C25_ModelToDictByFieldKind ==
    \A t \in Threads :
        (op[t].kind = "model_to_dict" /\ op[t].pc = "done") =>
            LET r == Val(op[t].ret)
                i == r.instance
                d == r.data
            IN  /\ "id" \in DOMAIN d <=> ~r.exclude_pk
                /\ "id" \in DOMAIN d => d["id"] = i.id
                /\ "date_created" \notin DOMAIN d
                /\ r.model = "Book" =>
                    /\ DOMAIN d \ {"id"} = {"title", "author", "editor"}
                    /\ d["title"] = i.title
                    /\ d["author"] = i.author
                    /\ Len(d["editor"]) = (IF i.id = 0 THEN 0 ELSE Len(i.editor))
                    /\ \A k \in 1..Len(d["editor"]) : d["editor"][k] = i.editor[k].pk
                /\ r.model = "Files" =>
                    /\ DOMAIN d \ {"id"} = {"file_field", "image_field"}
                    /\ d["file_field"] = i.file_field.name
                    /\ d["image_field"] = i.image_field.name

(* A saved Book with an author and two editors, the primary key excluded. *)
C25_Witness ==
    \E t \in Threads :
        /\ op[t].kind = "model_to_dict"
        /\ op[t].pc = "done"
        /\ Val(op[t].ret).model = "Book"
        /\ Val(op[t].ret).exclude_pk
        /\ Val(op[t].ret).instance.id = 1
        /\ Val(op[t].ret).data = [title |-> "a", author |-> 1, editor |-> <<1, 2>>]

(* C27: save, save_related or delete called while no request is bound to   *)
(* the thread fails before any write: the ChangeRequest table, the rows of  *)
(* the tracked model and its child rows are after the failure as before.   *)
C27_UnboundFailsBeforeAnyWrite ==
    /\ [](\A t \in Threads :
            (op[t].pc = "failed" /\ request[t] = None) =>
                (~op[t].wrote /\ op[t].cr.pk = 0))
    /\ [][\A t \in Threads :
            (/\ op[t].pc = "idle"
             /\ op'[t].kind \in {"save", "save_related", "delete"}
             /\ request[t] = None) =>
                (/\ op'[t].pc = "failed"
                 /\ history' = history
                 /\ rows' = rows
                 /\ related' = related
                 /\ nextPk' = nextPk
                 /\ nextRel' = nextRel)]_vars

(* A delete of a stored instance has failed with no request bound, after a *)
(* unit of work that saved the instance and recorded it.                   *)
C27_Witness ==
    \E t \in Threads :
        /\ op[t].pc = "failed"
        /\ op[t].kind = "delete"
        /\ request[t] = None
        /\ op[t].inst.pk # 0
        /\ rows[op[t].inst.pk] # None
        /\ Len(history) > 0

(* C28: with units of work on several threads, each through the           *)
(* middleware, a record built or persisted by a thread's operation carries *)
(* the user and the address of the request bound by that thread, and a     *)
(* record of the table is written only by the operation holding it, with   *)
(* those values, whatever the other threads bind, save or unbind between.  *)
C28_RecordCarriesOwnRequest ==
    /\ [](\A t \in Threads :
            op[t].pc \in {"persist1", "write", "persist2", "done"} =>
                /\ op[t].cr.user = RequestOf[t].user
                /\ op[t].cr.user_ip = get_ip_from_request(RequestOf[t])
                /\ op[t].cr.pk # 0 =>
                    /\ history[op[t].cr.pk].user = RequestOf[t].user
                    /\ history[op[t].cr.pk].user_ip = get_ip_from_request(RequestOf[t]))
    /\ [][\A k \in 1..Len(history') :
            (k > Len(history) \/ history'[k] # history[k]) =>
                \E t \in Threads :
                    /\ op[t].pc \in {"persist1", "persist2"}
                    /\ op'[t].cr.pk = k
                    /\ request[t] = Some(RequestOf[t])
                    /\ history'[k].user = RequestOf[t].user
                    /\ history'[k].user_ip = get_ip_from_request(RequestOf[t])]_vars

(* Both threads' saves have completed while both requests were bound: the  *)
(* table holds a record of each user with that user's address.             *)
C28_Witness ==
    /\ \A t \in Threads : op[t].pc = "done" /\ op[t].cr.pk # 0 /\ mw[t] = "in"
    /\ op["w1"].cr.pk = 3
    /\ op["w2"].cr.pk = 2
    /\ history[3].user = "alice"
    /\ history[3].user_ip = "10.0.0.1"
    /\ history[2].user = "bob"
    /\ history[2].user_ip = "2"

(* C29: after a completed save that persisted a record, the stored row's   *)
(* values on the keys of the persisted record's data_changed are exactly   *)
(* data_changed, and for a MODIFY the persisted record's data_revert is    *)
(* the stored row's values on its keys just before the underlying write.   *)
C29_StoredRowAgreesWithRecord ==
    \A t \in Threads :
        /\ (op[t].kind = "save" /\ op[t].pc = "done" /\ op[t].cr.pk # 0 /\ op[t].wrote) =>
                filter_data(Val(rows[op[t].inst.pk]),
                            DOMAIN Val(history[op[t].cr.pk].data_changed))
                    = Val(history[op[t].cr.pk].data_changed)
        /\ (op[t].kind = "save" /\ op[t].pc = "write" /\ op[t].cr.request_type = MODIFY) =>
                filter_data(Val(rows[op[t].inst.pk]),
                            DOMAIN Val(history[op[t].cr.pk].data_revert))
                    = Val(history[op[t].cr.pk].data_revert)

(* C30: a save, save_related or delete adds at most one record to the      *)
(* ChangeRequest table. Only the first cr.save() of an operation adds a    *)
(* record, an operation performs it once, and the record added is the one  *)
(* the operation holds; the second cr.save() changes no record but that    *)
(* one and adds none; a first cr.save() suppressed as a no-op adds none    *)
(* and ends the operation; the first cr.save() of delete always adds one.  *)
C30_AtMostOneRecordPerOperation ==
    [][\A t \in Threads :
        /\ Len(history') <= Len(history) + 1
        /\ (op'[t].pc = "persist1" /\ op'[t] # op[t]) => op[t].pc = "idle"
        /\ (op[t].pc = "persist1" /\ op'[t] # op[t]) =>
                /\ op'[t].pc \in {"write", "done"}
                /\ IF op'[t].cr.pk # 0
                   THEN /\ Len(history') = Len(history) + 1
                        /\ op'[t].cr.pk = Len(history')
                        /\ SubSeq(history', 1, Len(history)) = history
                   ELSE /\ history' = history
                        /\ op'[t].pc = "done"
                        /\ op[t].kind \in {"save", "save_related"}
                /\ ~ShouldPersist(op[t].cr) => op'[t].cr.pk = 0
                /\ op[t].kind = "delete" => Len(history') = Len(history) + 1
        /\ (op[t].pc \in {"write", "persist2"} /\ op'[t] # op[t]) =>
                /\ Len(history') <= Len(history)
                /\ op'[t].pc # "failed" =>
                    /\ Len(history') = Len(history)
                    /\ op'[t].cr.pk = op[t].cr.pk
                    /\ \A k \in 1..Len(history) :
                            k # op[t].cr.pk => history'[k] = history[k]
        /\ (Len(history') > Len(history)) =>
                \E u \in Threads : op[u].pc = "persist1" /\ op'[u].cr.pk = Len(history')]_vars

(* A save of a new instance has completed: the table holds one record,     *)
(* added by the first persist without an object id and carrying the        *)
(* instance's id after the second.                                         *)
C30_Witness ==
    \E t \in Threads :
        /\ op[t].kind = "save"
        /\ op[t].pc = "done"
        /\ op[t].wrote
        /\ op[t].cr.request_type = ADD
        /\ Len(history) = 1
        /\ op[t].cr.pk = 1
        /\ history[1].object_id = op[t].inst.pk
        /\ op[t].inst.pk # 0


====
